---- MODULE Spec2Model ----
(***************************************************************************)
(* The /search request handler of semantic_search_server.py, together with *)
(* the catalog snapshot it reads.                                          *)
(*                                                                         *)
(* Conventions of the model:                                               *)
(*  - text is a sequence of one-character strings;                         *)
(*  - a JSON / Python value is a record [t, i, s]: t is "none", "int",     *)
(*    "str" or "absent" (key not in the body), i the integer, s the text;  *)
(*  - scores are integers in hundredths (1.0 is 100);                      *)
(*  - an embedding is a pair of integers; every embedding of the model has *)
(*    Euclidean norm 10;                                                   *)
(*  - rows of the vector index are numbered from 1 (Faiss numbers from 0); *)
(*    -1 is the "no candidate" label, as in Faiss.                         *)
(***************************************************************************)
EXTENDS Integers, Sequences, FiniteSets, TLC

\* ------------------------------------------------------------ Python values

PyNone == [t |-> "none", i |-> 0, s |-> <<>>]
PyAbsent == [t |-> "absent", i |-> 0, s |-> <<>>]
PyInt(n) == [t |-> "int", i |-> n, s |-> <<>>]
PyStr(x) == [t |-> "str", i |-> 0, s |-> x]

\* dict.get(key): an absent key reads as None
Get(body, key) == IF body[key].t = "absent" THEN PyNone ELSE body[key]

\* dict.get(key, default)
GetDefault(body, key, default) ==
    IF body[key].t = "absent" THEN default ELSE body[key]

\* truth value of a Python object: None, 0 and "" are false
Truthy(v) ==
    CASE v.t = "int" -> v.i # 0
      [] v.t = "str" -> v.s # <<>>
      [] OTHER -> FALSE

Digits == <<"0", "1", "2", "3", "4", "5", "6", "7", "8", "9">>

IsDigit(c) == \E d \in 1..Len(Digits) : Digits[d] = c

DigitVal(c) == (CHOOSE d \in 1..Len(Digits) : Digits[d] = c) - 1

RECURSIVE DigitsVal(_)
DigitsVal(s) ==
    IF s = <<>> THEN 0
    ELSE 10 * DigitsVal(SubSeq(s, 1, Len(s) - 1)) + DigitVal(s[Len(s)])

\* int(x): [ok, val]; ok = FALSE stands for ValueError / TypeError
PyIntOf(v) ==
    CASE v.t = "int" -> [ok |-> TRUE, val |-> v.i]
      [] v.t = "str" ->
            LET signed == v.s # <<>> /\ v.s[1] \in {"-", "+"}
                digits == IF signed THEN Tail(v.s) ELSE v.s
                valid == digits # <<>> /\ \A k \in 1..Len(digits) : IsDigit(digits[k])
            IN  IF ~valid THEN [ok |-> FALSE, val |-> 0]
                ELSE [ok |-> TRUE,
                      val |-> IF signed /\ v.s[1] = "-" THEN 0 - DigitsVal(digits)
                              ELSE DigitsVal(digits)]
      [] OTHER -> [ok |-> FALSE, val |-> 0]

\* a slice that takes the item at the stop index too
PySliceInclusive(list, start, stop) ==
    LET lo == IF start < 0 THEN 0 ELSE IF start > Len(list) THEN Len(list) ELSE start
        hi == IF stop + 1 < 0 THEN 0 ELSE IF stop + 1 > Len(list) THEN Len(list) ELSE stop + 1
    IN  IF lo >= hi THEN <<>> ELSE SubSeq(list, lo + 1, hi)

\* list[start:stop] with Python's handling of negative and out-of-range bounds
PySliceBound(n, len) ==
    IF n < 0 THEN (IF n + len < 0 THEN 0 ELSE n + len)
    ELSE IF n > len THEN len ELSE n

PySlice(list, start, stop) ==
    LET lo == PySliceBound(start, Len(list))
        hi == PySliceBound(stop, Len(list))
    IN  IF lo >= hi THEN <<>> ELSE SubSeq(list, lo + 1, hi)

\* ---------------------------------------------------------------- text

UpperChars == <<"A", "B", "C", "D", "E", "F", "G", "H", "I", "J", "K", "L", "M",
                "N", "O", "P", "Q", "R", "S", "T", "U", "V", "W", "X", "Y", "Z">>

LowerChars == <<"a", "b", "c", "d", "e", "f", "g", "h", "i", "j", "k", "l", "m",
                "n", "o", "p", "q", "r", "s", "t", "u", "v", "w", "x", "y", "z">>

UpperToLower ==
    [c \in {UpperChars[k] : k \in 1..Len(UpperChars)} |->
        LowerChars[CHOOSE k \in 1..Len(UpperChars) : UpperChars[k] = c]]

LowerChar(c) == IF c \in DOMAIN UpperToLower THEN UpperToLower[c] ELSE c

\* str.lower()
Lower(text) == [k \in 1..Len(text) |-> LowerChar(text[k])]

\* str.split(): the maximal runs of non-blank characters
RECURSIVE SplitFrom(_, _, _)
SplitFrom(text, k, word) ==
    IF k > Len(text) THEN (IF word = <<>> THEN <<>> ELSE <<word>>)
    ELSE IF text[k] = " "
         THEN (IF word = <<>> THEN <<>> ELSE <<word>>) \o SplitFrom(text, k + 1, <<>>)
         ELSE SplitFrom(text, k + 1, Append(word, text[k]))

Split(text) == SplitFrom(text, 1, <<>>)

\* a in b, for strings
Contains(a, b) ==
    \E k \in 0..(Len(b) - Len(a)) : SubSeq(b, k + 1, k + Len(a)) = a

EndsWith(word, suffix) ==
    /\ Len(word) >= Len(suffix)
    /\ SubSeq(word, Len(word) - Len(suffix) + 1, Len(word)) = suffix

Strip(word, n) == SubSeq(word, 1, Len(word) - n)

HasVowel(word) == \E k \in 1..Len(word) : word[k] \in {"a", "e", "i", "o", "u"}

\* PorterStemmer.stem, restricted to the steps that act on the words of the
\* model: step 1a (plurals) and step 1b (-ing, -ed); words of one or two
\* letters are left alone.
Stem(word) ==
    LET w == Lower(word)
        a == IF EndsWith(w, <<"s", "s", "e", "s">>) THEN Strip(w, 2)
             ELSE IF EndsWith(w, <<"i", "e", "s">>) THEN Strip(w, 2)
             ELSE IF EndsWith(w, <<"s", "s">>) THEN w
             ELSE IF EndsWith(w, <<"s">>) THEN Strip(w, 1)
             ELSE w
        b == IF EndsWith(a, <<"i", "n", "g">>) /\ HasVowel(Strip(a, 3)) THEN Strip(a, 3)
             ELSE IF EndsWith(a, <<"e", "d">>) /\ HasVowel(Strip(a, 2)) THEN Strip(a, 2)
             ELSE a
    IN  IF Len(w) <= 2 THEN w ELSE b

\* ------------------------------------------------------- program constants

KEYWORD_BOOST_EXACT == 100

KEYWORD_BOOST_PARTIAL == 50

KEYWORD_BOOST_GENERIC == 20

GENERIC_WORDS ==
    << <<"t", "o", "o", "l">>,
       <<"k", "i", "t">>,
       <<"s", "e", "t">>,
       <<"s", "u", "p", "p", "l", "y">>,
       <<"s", "u", "p", "p", "l", "i", "e", "s">>,
       <<"w", "i", "r", "e">>,
       <<"p", "a", "s", "t", "e">>,
       <<"w", "i", "c", "k">>,
       <<"d", "e", "v", "i", "c", "e">>,
       <<"i", "n", "s", "t", "r", "u", "m", "e", "n", "t">>,
       <<"a", "p", "p", "a", "r", "a", "t", "u", "s">>,
       <<"e", "q", "u", "i", "p", "m", "e", "n", "t">>,
       <<"i", "m", "p", "l", "e", "m", "e", "n", "t">>,
       <<"m", "o", "d", "u", "l", "e">> >>

PROJECT_KEYWORDS ==
    << <<"b", "u", "i", "l", "d">>,
       <<"m", "a", "k", "e">>,
       <<"p", "r", "o", "j", "e", "c", "t">>,
       <<"k", "i", "t">>,
       <<"m", "a", "t", "e", "r", "i", "a", "l", "s", " ", "f", "o", "r">>,
       <<"s", "t", "a", "r", "t", "e", "r">>,
       <<"r", "o", "b", "o", "t">>,
       <<"r", "a", "d", "i", "o">>,
       <<"c", "o", "n", "s", "t", "r", "u", "c", "t">>,
       <<"a", "s", "s", "e", "m", "b", "l", "e">>,
       <<"c", "r", "e", "a", "t", "e">>,
       <<"f", "a", "b", "r", "i", "c", "a", "t", "e">>,
       <<"d", "e", "v", "e", "l", "o", "p">>,
       <<"d", "e", "s", "i", "g", "n">>,
       <<"c", "r", "a", "f", "t">>,
       <<"i", "m", "p", "l", "e", "m", "e", "n", "t">>,
       <<"i", "n", "t", "e", "g", "r", "a", "t", "e">>,
       <<"e", "n", "g", "i", "n", "e", "e", "r">>,
       <<"p", "r", "o", "t", "o", "t", "y", "p", "e">> >>

MAX_ITEMS_PER_CATEGORY == 2

PROJECT_CATEGORY_ORDER ==
    << <<1>>, <<4>>, <<6, 7>>, <<2, 3, 8, 9, 10, 11>>, <<5, 12>>, <<13, 14>> >>

\* retrieval width of the vector-index search
K == 250

\* ------------------------------------------------------------- vector math

Dot(a, b) == a[1] * b[1] + a[2] * b[2]

\* squared L2 distance, the metric of faiss.IndexFlatL2
L2Sq(a, b) == (a[1] - b[1]) * (a[1] - b[1]) + (a[2] - b[2]) * (a[2] - b[2])

VecNorm(a) == CHOOSE n \in 0..Dot(a, a) : n * n = Dot(a, a)

\* util.pytorch_cos_sim, in hundredths
CosSim(a, b) == (100 * Dot(a, b)) \div (VecNorm(a) * VecNorm(b))

\* model.encode: a fixed function of the text
Embed(text) ==
    CASE text = <<"S", "o", "l", "d", "e", "r">> -> <<6, 8>>
      [] text = <<"k", "i", "t">> -> <<10, 0>>
      [] text = <<"B", "u", "i", "l", "d", " ", "a", " ", "r", "o", "b", "o", "t", " ",
                  "k", "i", "t">> -> <<10, 0>>
      [] OTHER -> <<0, 10>>

\* rows of the index by increasing distance to the query; equal distances
\* keep row order
RECURSIVE InsertByDistance(_, _, _, _)
InsertByDistance(rows, row, vectors, q) ==
    IF rows = <<>> THEN <<row>>
    ELSE IF L2Sq(vectors[row], q) < L2Sq(vectors[Head(rows)], q)
         THEN <<row>> \o rows
         ELSE <<Head(rows)>> \o InsertByDistance(Tail(rows), row, vectors, q)

RECURSIVE NearestRows(_, _, _)
NearestRows(vectors, q, n) ==
    IF n = 0 THEN <<>>
    ELSE InsertByDistance(NearestRows(vectors, q, n - 1), n, vectors, q)

\* index.search(query, k): k labels, the nearest rows first, padded with -1
IndexSearch(vectors, q, k) ==
    LET nearest == NearestRows(vectors, q, Len(vectors))
    IN  [j \in 1..k |-> IF j <= Len(nearest) THEN nearest[j] ELSE -1]

\* ---------------------------------------------------------------- sorting

\* sorted(..., key=lambda x: x[1], reverse=True) is stable: an item is placed
\* after every item whose key is at least its own
RECURSIVE InsertDesc(_, _)
InsertDesc(placed, x) ==
    IF placed = <<>> THEN <<x>>
    ELSE IF x[2] > Head(placed)[2] THEN <<x>> \o placed
    ELSE <<Head(placed)>> \o InsertDesc(Tail(placed), x)

\* a sort that is not stable: an item is placed ahead of the items of equal key
RECURSIVE InsertDescUnstable(_, _)
InsertDescUnstable(placed, x) ==
    IF placed = <<>> THEN <<x>>
    ELSE IF x[2] >= Head(placed)[2] THEN <<x>> \o placed
    ELSE <<Head(placed)>> \o InsertDescUnstable(Tail(placed), x)

RECURSIVE PySortedDescUnstable(_)
PySortedDescUnstable(results) ==
    IF results = <<>> THEN <<>>
    ELSE InsertDescUnstable(PySortedDescUnstable(SubSeq(results, 1, Len(results) - 1)),
                            results[Len(results)])

RECURSIVE PySortedDesc(_)
PySortedDesc(results) ==
    IF results = <<>> THEN <<>>
    ELSE InsertDesc(PySortedDesc(SubSeq(results, 1, Len(results) - 1)),
                    results[Len(results)])

\* --------------------------------------------------------------- retrieval

\* lines 109-131: the candidates of a query vector, sorted by similarity
ValidFaissIndices(labels) == SelectSeq(labels, LAMBDA idx : idx # -1)

SemanticResults(query_embedding, vectors, embeddings, ids) ==
    LET faiss_indices == IndexSearch(vectors, query_embedding, K)
        valid_faiss_indices == ValidFaissIndices(faiss_indices)
        top_k_embeddings ==
            [j \in 1..Len(valid_faiss_indices) |-> embeddings[valid_faiss_indices[j]]]
        top_k_similarities ==
            [j \in 1..Len(valid_faiss_indices) |->
                CosSim(query_embedding, top_k_embeddings[j])]
        top_k_product_ids ==
            [j \in 1..Len(valid_faiss_indices) |-> ids[valid_faiss_indices[j]]]
    IN  PySortedDesc([j \in 1..Len(valid_faiss_indices) |->
                        <<top_k_product_ids[j], top_k_similarities[j]>>])

\* ---------------------------------------------------------- keyword boost

InList(x, list) == \E k \in 1..Len(list) : list[k] = x

\* a scan that grants the partial boost when no name word matched
RECURSIVE WordBoostFallthrough(_, _)
WordBoostFallthrough(q_word, product_name_words) ==
    IF product_name_words = <<>> THEN KEYWORD_BOOST_PARTIAL
    ELSE LET p_word == Head(product_name_words)
         IN  IF Stem(q_word) = Stem(p_word)
             THEN (IF InList(q_word, GENERIC_WORDS) THEN KEYWORD_BOOST_GENERIC
                   ELSE KEYWORD_BOOST_EXACT)
             ELSE IF Contains(q_word, p_word) \/ Contains(p_word, q_word)
                  THEN KEYWORD_BOOST_PARTIAL
                  ELSE WordBoostFallthrough(q_word, Tail(product_name_words))

\* the boost one query word earns from a name: the first name word that
\* matches decides, and the scan of the name stops there
RECURSIVE WordBoost(_, _)
WordBoost(q_word, product_name_words) ==
    IF product_name_words = <<>> THEN 0
    ELSE LET p_word == Head(product_name_words)
         IN  IF Stem(q_word) = Stem(p_word)
             THEN (IF InList(q_word, GENERIC_WORDS) THEN KEYWORD_BOOST_GENERIC
                   ELSE KEYWORD_BOOST_EXACT)
             ELSE IF Contains(q_word, p_word) \/ Contains(p_word, q_word)
                  THEN KEYWORD_BOOST_PARTIAL
                  ELSE WordBoost(q_word, Tail(product_name_words))

RECURSIVE TotalBoost(_, _)
TotalBoost(query_words, product_name_words) ==
    IF query_words = <<>> THEN 0
    ELSE WordBoost(Head(query_words), product_name_words)
         + TotalBoost(Tail(query_words), product_name_words)

\* lines 134-157
BoostedResults(results, query, names) ==
    LET query_words == Split(Lower(query))
    IN  [j \in 1..Len(results) |->
            <<results[j][1],
              results[j][2] + TotalBoost(query_words, Split(Lower(names[results[j][1]])))>>]

\* --------------------------------------------------------- category filter

\* line 168
FilterByCategory(results, categories, cat_id_int) ==
    SelectSeq(results, LAMBDA res : categories[res[1]] = PyInt(cat_id_int))

\* --------------------------------------------------------- diversification

\* line 174
IsProjectQuery(query) ==
    \E k \in 1..Len(PROJECT_KEYWORDS) : Contains(PROJECT_KEYWORDS[k], Lower(query))

\* lines 180-185: category -> its results, in the order of the list
ResultsByCategory(results, categories) ==
    [cat_id \in {categories[results[j][1]] : j \in 1..Len(results)} |->
        SelectSeq(results, LAMBDA res : categories[res[1]] = cat_id)]

\* results_by_category.get(category_id, [])
ProductsInCat(results_by_category, category_id) ==
    IF PyInt(category_id) \in DOMAIN results_by_category
    THEN results_by_category[PyInt(category_id)]
    ELSE <<>>

\* a walk that lets one item too many through the cap
RECURSIVE TakeFromCategoryOffByOne(_, _, _)
TakeFromCategoryOffByOne(acc, products_in_cat, i) ==
    IF i >= Len(products_in_cat) THEN acc
    ELSE LET item == products_in_cat[i + 1]
             take == i <= MAX_ITEMS_PER_CATEGORY /\ item[1] \notin acc.seen
         IN  TakeFromCategoryOffByOne(
                 IF take THEN [top |-> Append(acc.top, item),
                               seen |-> acc.seen \cup {item[1]}]
                 ELSE acc,
                 products_in_cat, i + 1)

\* lines 195-199: walk one bucket; acc = [top, seen]
RECURSIVE TakeFromCategory(_, _, _)
TakeFromCategory(acc, products_in_cat, i) ==
    IF i >= Len(products_in_cat) THEN acc
    ELSE LET item == products_in_cat[i + 1]
             take == i < MAX_ITEMS_PER_CATEGORY /\ item[1] \notin acc.seen
         IN  TakeFromCategory(
                 IF take THEN [top |-> Append(acc.top, item),
                               seen |-> acc.seen \cup {item[1]}]
                 ELSE acc,
                 products_in_cat, i + 1)

\* line 192: walk the categories of one group
RECURSIVE WalkGroup(_, _, _)
WalkGroup(acc, category_group, results_by_category) ==
    IF category_group = <<>> THEN acc
    ELSE WalkGroup(
             TakeFromCategory(acc, ProductsInCat(results_by_category, Head(category_group)), 0),
             Tail(category_group), results_by_category)

\* line 191: walk the groups in order
RECURSIVE WalkTiers(_, _, _)
WalkTiers(acc, tiers, results_by_category) ==
    IF tiers = <<>> THEN acc
    ELSE WalkTiers(WalkGroup(acc, Head(tiers), results_by_category),
                   Tail(tiers), results_by_category)

TopResults(results_by_category) ==
    WalkTiers([top |-> <<>>, seen |-> {}], PROJECT_CATEGORY_ORDER, results_by_category)

\* a tail collected back to front
RECURSIVE RemainingProductsReversed(_, _)
RemainingProductsReversed(results, seen_product_ids) ==
    IF results = <<>> THEN <<>>
    ELSE RemainingProductsReversed(Tail(results), seen_product_ids)
             \o (IF Head(results)[1] \notin seen_product_ids THEN <<Head(results)>> ELSE <<>>)

\* a tail that forgets what the tier walk emitted
RemainingProductsAll(results, seen_product_ids) == results

\* lines 202-205
RemainingProducts(results, seen_product_ids) ==
    SelectSeq(results, LAMBDA res : res[1] \notin seen_product_ids)

\* -------------------------------------------------------------- pagination

\* line 219
PaginatedIds(paginated_results) ==
    [j \in 1..Len(paginated_results) |-> paginated_results[j][1]]

\* ---------------------------------------------------------------- state

VARIABLES
    product_ids,              \* row -> product id
    product_embeddings,       \* row -> embedding
    product_id_to_category,   \* product id -> category (an int or None)
    product_id_to_name,       \* product id -> name
    index,                    \* the Faiss index, or IndexNone
    request,                  \* per handler invocation: the JSON body
    pc,                       \* per handler invocation: where it stands
    frame,                    \* per handler invocation: its local variables
    response,                 \* per handler invocation: what it returned
    calls                     \* per handler invocation: library calls made

snapshot ==
    <<product_ids, product_embeddings, product_id_to_category, product_id_to_name, index>>

vars == <<product_ids, product_embeddings, product_id_to_category, product_id_to_name,
          index, request, pc, frame, response, calls>>

\* bounds of the model
MaxProducts == 3

NumRequests == 2

Requests == 1..NumRequests

IndexNone == [loaded |-> FALSE, vectors |-> <<>>]

NoResponse == [status |-> 0, product_ids |-> <<>>, total |-> 0, error |-> ""]

NoBody == [q |-> PyAbsent, category_id |-> PyAbsent, page |-> PyAbsent, limit |-> PyAbsent]

NoCalls == [encode |-> 0, search |-> 0, cos_sim |-> 0]

EmptyFrame ==
    [query |-> PyNone, category_id |-> PyNone, page |-> 0, limit |-> 0, offset |-> 0,
     query_embedding |-> <<0, 0>>,
     similarity_sorted |-> <<>>,   \* sorted_results as of line 131
     boosted_results |-> <<>>,
     boost_sorted |-> <<>>,        \* sorted_results as of line 160
     sorted_results |-> <<>>,
     results_by_category |-> <<>>,
     top_results |-> <<>>,
     remaining_products |-> <<>>]

\* every invocation working on one module-level set of variables
SharedLocals(r) == 1

\* the local variables of a handler invocation are its own
LocalsOf(r) == r

\* -------------------------------------------------------------- the catalog

\* the rows the startup query returns: names and embeddings by row, the
\* category of each row free
RowNames ==
    << <<"S", "o", "l", "d", "e", "r", " ", "W", "i", "r", "e">>,
       <<"R", "o", "b", "o", "t", " ", "K", "i", "t">>,
       <<"D", "C", " ", "M", "o", "t", "o", "r">>,
       <<"U", "S", "B", " ", "C", "a", "b", "l", "e">>,
       <<"S", "o", "l", "d", "e", "r", "i", "n", "g", " ", "I", "r", "o", "n">> >>

RowEmbeddings == << <<10, 0>>, <<8, 6>>, <<10, 0>>, <<8, 6>>, <<6, 8>> >>

ProductsData(categories) ==
    [row \in 1..Len(categories) |->
        [product_id |-> 100 + row,
         product_name |-> RowNames[((row - 1) % Len(RowNames)) + 1],
         product_embedding |-> RowEmbeddings[((row - 1) % Len(RowEmbeddings)) + 1],
         category_id |-> categories[row]]]

\* an index built without looking at the size of the embeddings
BuildIndexUnchecked(embeddings) == [loaded |-> TRUE, vectors |-> embeddings]

\* lines 73-80
BuildIndex(embeddings) ==
    IF Len(embeddings) > 0 THEN [loaded |-> TRUE, vectors |-> embeddings] ELSE IndexNone

SeqsUpTo(S, n) == UNION {[1..m -> S] : m \in 0..n}

\* lines 66-80: the snapshot built from the rows, and no request yet
Startup(products_data) ==
    /\ product_ids = [row \in 1..Len(products_data) |-> products_data[row].product_id]
    /\ product_embeddings =
           [row \in 1..Len(products_data) |-> products_data[row].product_embedding]
    /\ product_id_to_category =
           [pid \in {products_data[row].product_id : row \in 1..Len(products_data)} |->
               products_data[CHOOSE row \in 1..Len(products_data) :
                                 products_data[row].product_id = pid].category_id]
    /\ product_id_to_name =
           [pid \in {products_data[row].product_id : row \in 1..Len(products_data)} |->
               products_data[CHOOSE row \in 1..Len(products_data) :
                                 products_data[row].product_id = pid].product_name]
    /\ index = BuildIndex([row \in 1..Len(products_data) |->
                              products_data[row].product_embedding])
    /\ request = [r \in Requests |-> NoBody]
    /\ pc = [r \in Requests |-> "idle"]
    /\ frame = [r \in Requests |-> EmptyFrame]
    /\ response = [r \in Requests |-> NoResponse]
    /\ calls = [r \in Requests |-> NoCalls]

\* ---------------------------------------------------------------- handler

ErrorResponse(status, message) ==
    [status |-> status, product_ids |-> <<>>, total |-> 0, error |-> message]

\* a POST /search with this JSON body reaches the handler
Arrive(r, body) ==
    /\ pc[r] = "idle"
    /\ request' = [request EXCEPT ![r] = body]
    /\ pc' = [pc EXCEPT ![r] = "start"]
    /\ UNCHANGED <<snapshot, frame, response, calls>>

\* lines 85-86
Unavailable(r) ==
    /\ pc[r] = "start"
    /\ ~index.loaded
    /\ response' = [response EXCEPT ![r] =
           ErrorResponse(503, "Search is disabled because no product embeddings are loaded.")]
    /\ pc' = [pc EXCEPT ![r] = "done"]
    /\ UNCHANGED <<snapshot, request, frame, calls>>

\* lines 88-94
MissingQuery(r) ==
    /\ pc[r] = "start"
    /\ index.loaded
    /\ ~Truthy(Get(request[r], "q"))
    /\ frame' = [frame EXCEPT ![LocalsOf(r)] =
           [@ EXCEPT !.query = Get(request[r], "q"),
                     !.category_id = Get(request[r], "category_id")]]
    /\ response' = [response EXCEPT ![r] = ErrorResponse(400, "Query 'q' is required")]
    /\ pc' = [pc EXCEPT ![r] = "done"]
    /\ UNCHANGED <<snapshot, request, calls>>

\* lines 88-98
ParsePaging(r) ==
    LET page == PyIntOf(GetDefault(request[r], "page", PyInt(1)))
        limit == PyIntOf(GetDefault(request[r], "limit", PyInt(10)))
    IN  /\ pc[r] = "start"
        /\ index.loaded
        /\ Truthy(Get(request[r], "q"))
        /\ page.ok
        /\ limit.ok
        /\ frame' = [frame EXCEPT ![LocalsOf(r)] =
               [@ EXCEPT !.query = Get(request[r], "q"),
                         !.category_id = Get(request[r], "category_id"),
                         !.page = page.val,
                         !.limit = limit.val,
                         !.offset = (page.val - 1) * limit.val]]
        /\ pc' = [pc EXCEPT ![r] = "retrieve"]
        /\ UNCHANGED <<snapshot, request, response, calls>>

\* lines 96-97 raising, caught at lines 226-228
InternalError(r) ==
    LET page == PyIntOf(GetDefault(request[r], "page", PyInt(1)))
        limit == PyIntOf(GetDefault(request[r], "limit", PyInt(10)))
    IN  /\ pc[r] = "start"
        /\ index.loaded
        /\ Truthy(Get(request[r], "q"))
        /\ ~(page.ok /\ limit.ok)
        /\ frame' = [frame EXCEPT ![LocalsOf(r)] =
               [@ EXCEPT !.query = Get(request[r], "q"),
                         !.category_id = Get(request[r], "category_id")]]
        /\ response' = [response EXCEPT ![r] =
               ErrorResponse(500, "An internal error occurred in the search service")]
        /\ pc' = [pc EXCEPT ![r] = "done"]
        /\ UNCHANGED <<snapshot, request, calls>>

\* lines 101-131
Retrieve(r) ==
    LET f == frame[LocalsOf(r)]
        query_embedding == Embed(f.query.s)
        sorted_results ==
            SemanticResults(query_embedding, index.vectors, product_embeddings, product_ids)
    IN  /\ pc[r] = "retrieve"
        /\ frame' = [frame EXCEPT ![LocalsOf(r)] =
               [@ EXCEPT !.query_embedding = query_embedding,
                         !.similarity_sorted = sorted_results,
                         !.sorted_results = sorted_results]]
        /\ calls' = [calls EXCEPT ![r] =
               [encode |-> @.encode + 1, search |-> @.search + 1, cos_sim |-> @.cos_sim + 1]]
        /\ pc' = [pc EXCEPT ![r] = "boost"]
        /\ UNCHANGED <<snapshot, request, response>>

\* lines 134-160
Boost(r) ==
    LET f == frame[LocalsOf(r)]
        boosted_results == BoostedResults(f.sorted_results, f.query.s, product_id_to_name)
        sorted_results == PySortedDesc(boosted_results)
    IN  /\ pc[r] = "boost"
        /\ frame' = [frame EXCEPT ![LocalsOf(r)] =
               [@ EXCEPT !.boosted_results = boosted_results,
                         !.boost_sorted = sorted_results,
                         !.sorted_results = sorted_results]]
        /\ pc' = [pc EXCEPT ![r] = "select"]
        /\ UNCHANGED <<snapshot, request, response, calls>>

\* lines 164-168: category_id is truthy and int() accepts it
Filter(r) ==
    LET f == frame[LocalsOf(r)]
        cat_id_int == PyIntOf(f.category_id)
    IN  /\ pc[r] = "select"
        /\ Truthy(f.category_id)
        /\ cat_id_int.ok
        /\ frame' = [frame EXCEPT ![LocalsOf(r)] =
               [@ EXCEPT !.sorted_results =
                   FilterByCategory(f.sorted_results, product_id_to_category, cat_id_int.val)]]
        /\ pc' = [pc EXCEPT ![r] = "paginate"]
        /\ UNCHANGED <<snapshot, request, response, calls>>

\* lines 164-171: category_id is truthy and int() raises
FilterSoftFail(r) ==
    LET f == frame[LocalsOf(r)]
    IN  /\ pc[r] = "select"
        /\ Truthy(f.category_id)
        /\ ~PyIntOf(f.category_id).ok
        /\ pc' = [pc EXCEPT ![r] = "paginate"]
        /\ UNCHANGED <<snapshot, request, frame, response, calls>>

\* lines 172-208: category_id is falsy and the query is a project query
Diversify(r) ==
    LET f == frame[LocalsOf(r)]
        results_by_category == ResultsByCategory(f.sorted_results, product_id_to_category)
        walked == TopResults(results_by_category)
        remaining_products == RemainingProducts(f.sorted_results, walked.seen)
        last_group == PROJECT_CATEGORY_ORDER[Len(PROJECT_CATEGORY_ORDER)]
    IN  /\ pc[r] = "select"
        /\ ~Truthy(f.category_id)
        /\ IsProjectQuery(f.query.s)
        /\ frame' = [frame EXCEPT ![LocalsOf(r)] =
               [@ EXCEPT !.results_by_category = results_by_category,
                         !.top_results = walked.top,
                         !.remaining_products = remaining_products,
                         \* the loop variable of line 192 is the same local
                         !.category_id = PyInt(last_group[Len(last_group)]),
                         !.sorted_results = walked.top \o remaining_products]]
        /\ pc' = [pc EXCEPT ![r] = "paginate"]
        /\ UNCHANGED <<snapshot, request, response, calls>>

\* lines 172-174, 209-210: category_id is falsy and the query is specific
SkipDiversification(r) ==
    LET f == frame[LocalsOf(r)]
    IN  /\ pc[r] = "select"
        /\ ~Truthy(f.category_id)
        /\ ~IsProjectQuery(f.query.s)
        /\ pc' = [pc EXCEPT ![r] = "paginate"]
        /\ UNCHANGED <<snapshot, request, frame, response, calls>>

\* lines 213-225
Paginate(r) ==
    LET f == frame[LocalsOf(r)]
        total_results == Len(f.sorted_results)
        paginated_results == PySlice(f.sorted_results, f.offset, f.offset + f.limit)
    IN  /\ pc[r] = "paginate"
        /\ response' = [response EXCEPT ![r] =
               [status |-> 200, product_ids |-> PaginatedIds(paginated_results),
                total |-> total_results, error |-> ""]]
        /\ pc' = [pc EXCEPT ![r] = "done"]
        /\ UNCHANGED <<snapshot, request, frame, calls>>

Handler(r) ==
    \/ Unavailable(r)
    \/ MissingQuery(r)
    \/ ParsePaging(r)
    \/ InternalError(r)
    \/ Retrieve(r)
    \/ Boost(r)
    \/ Filter(r)
    \/ FilterSoftFail(r)
    \/ Diversify(r)
    \/ SkipDiversification(r)
    \/ Paginate(r)

\* --------------------------------------------------------- specifications

MkBody(q, category_id, page, limit) ==
    [q |-> q, category_id |-> category_id, page |-> page, limit |-> limit]

TextSolder == <<"S", "o", "l", "d", "e", "r">>

TextKit == <<"k", "i", "t">>

TextBuild ==
    <<"B", "u", "i", "l", "d", " ", "a", " ", "r", "o", "b", "o", "t", " ", "k", "i", "t">>

\* a body whose page is not a number: the one way into the except clause
BadPageBody == MkBody(PyStr(TextSolder), PyAbsent, PyStr(<<"x">>), PyAbsent)

\* Spec: one request at a time, every kind of q and category_id, default paging
Categories == {PyNone, PyInt(0), PyInt(1), PyInt(6)}

Queries == {PyAbsent, PyStr(<<>>), PyStr(TextSolder), PyStr(TextKit), PyStr(TextBuild)}

CategoryIds ==
    {PyAbsent, PyInt(0), PyInt(6), PyInt(-1), PyStr(<<"6">>), PyStr(<<"0">>),
     PyStr(<<"a", "b", "c">>), PyStr(<<>>)}

Bodies ==
    {MkBody(q, c, PyAbsent, PyAbsent) : q \in Queries, c \in CategoryIds}
        \cup {BadPageBody}

Init == \E categories \in SeqsUpTo(Categories, MaxProducts) : Startup(ProductsData(categories))

Next ==
    \/ \E body \in Bodies : Arrive(1, body)
    \/ Handler(1)

Spec == Init /\ [][Next]_vars

\* SpecPaging: one request at a time, every kind of page and limit
MaxPagedProducts == 4

MaxPage == 3

MaxLimit == 2

PagedCategories == {PyInt(1), PyInt(6)}

PagedBodies ==
    {MkBody(q, c, page, limit) :
        q \in {PyAbsent, PyStr(TextSolder), PyStr(TextKit)},
        c \in {PyAbsent, PyStr(<<"6">>)},
        page \in {PyAbsent} \cup {PyInt(n) : n \in -1..MaxPage},
        limit \in {PyAbsent} \cup {PyInt(n) : n \in -1..MaxLimit}}
        \cup {BadPageBody,
              MkBody(PyStr(TextKit), PyStr(<<"a", "b", "c">>), PyAbsent, PyAbsent)}

InitPaging ==
    \E categories \in SeqsUpTo(PagedCategories, MaxPagedProducts) :
        Startup(ProductsData(categories))

NextPaging ==
    \/ \E body \in PagedBodies : Arrive(1, body)
    \/ Handler(1)

SpecPaging == InitPaging /\ [][NextPaging]_vars

\* SpecTiers: one project query at a time, without a category filter, over
\* every mix of categories in the catalog; the handler's other branches are
\* not taken for such bodies
MaxTierProducts == 4

TierCategories == {PyNone, PyInt(1), PyInt(4), PyInt(6), PyInt(7), PyInt(99)}

TierBodies ==
    {MkBody(PyStr(TextBuild), PyAbsent, PyAbsent, PyAbsent),
     MkBody(PyStr(TextKit), PyAbsent, PyAbsent, PyAbsent)}

InitTiers ==
    \E categories \in SeqsUpTo(TierCategories, MaxTierProducts) :
        Startup(ProductsData(categories))

NextTiers ==
    \/ \E body \in TierBodies : Arrive(1, body)
    \/ Unavailable(1)
    \/ ParsePaging(1)
    \/ Retrieve(1)
    \/ Boost(1)
    \/ Diversify(1)
    \/ Paginate(1)

SpecTiers == InitTiers /\ [][NextTiers]_vars

\* SpecConcurrent: NumRequests handler invocations interleaved step by step
\* over one of two catalogs
ConcurrentCatalogs == {<<>>, <<PyInt(6), PyInt(1), PyNone>>}

ConcurrentBodies ==
    {MkBody(PyStr(TextKit), PyAbsent, PyAbsent, PyAbsent),
     MkBody(PyStr(TextKit), PyStr(<<"a", "b", "c">>), PyAbsent, PyAbsent),
     MkBody(PyStr(TextKit), PyStr(<<"6">>), PyAbsent, PyAbsent),
     MkBody(PyStr(TextSolder), PyAbsent, PyAbsent, PyAbsent),
     MkBody(PyAbsent, PyAbsent, PyAbsent, PyAbsent),
     BadPageBody}

InitConcurrent ==
    \E categories \in ConcurrentCatalogs : Startup(ProductsData(categories))

NextConcurrent ==
    \E r \in Requests :
        \/ \E body \in ConcurrentBodies : Arrive(r, body)
        \/ Handler(r)

SpecConcurrent == InitConcurrent /\ [][NextConcurrent]_vars

\* ------------------------------------------------------------------ claims

\* position of a product id in a list of (product id, score) pairs
PositionOf(results, pid) == CHOOSE j \in 1..Len(results) : results[j][1] = pid

IdsOf(results) == {results[j][1] : j \in 1..Len(results)}

Answered(r) == pc[r] = "done"

\* the handler has passed line 160
Boosted(r) == pc[r] \in {"select", "paginate", "done"} /\ response[r].status \in {0, 200}

\* C4 as claimed: whenever category_id is present and int() accepts it, every
\* product id of the response is of exactly that category and total is the
\* number of retrieved candidates of that category.
C4_FilterCorrectness ==
    \A r \in Requests :
        LET wanted == PyIntOf(Get(request[r], "category_id"))
            f == frame[r]
        IN  (Answered(r) /\ response[r].status = 200 /\ wanted.ok) =>
                /\ \A j \in 1..Len(response[r].product_ids) :
                       product_id_to_category[response[r].product_ids[j]] = PyInt(wanted.val)
                /\ response[r].total =
                       Cardinality({pid \in IdsOf(f.boost_sorted) :
                                        product_id_to_category[pid] = PyInt(wanted.val)})

\* C7: with no embeddings in the catalog, every answer is a 503 and no
\* handler invocation ever calls the embedding function, the vector-index
\* search or the similarity computation.
C7_UnavailableIndex ==
    \A r \in Requests :
        Len(product_embeddings) = 0 =>
            /\ calls[r] = NoCalls
            /\ pc[r] \in {"idle", "start", "done"}
            /\ Answered(r) => response[r].status = 503

\* C7 witness: a request with a usable query was answered 503 on an empty catalog
C7_Witness ==
    \E r \in Requests :
        /\ Len(product_embeddings) = 0
        /\ Answered(r)
        /\ Truthy(Get(request[r], "q"))
        /\ response[r].status = 503

\* no query word stem-matches or partially matches any word of the name
NoKeywordOverlap(query, name) ==
    LET query_words == Split(Lower(query))
        name_words == Split(Lower(name))
    IN  \A a \in 1..Len(query_words), b \in 1..Len(name_words) :
            /\ Stem(query_words[a]) # Stem(name_words[b])
            /\ ~Contains(query_words[a], name_words[b])
            /\ ~Contains(name_words[b], query_words[a])

\* C9: every candidate's final score is its semantic score plus a boost >= 0,
\* and a candidate without keyword overlap keeps exactly its semantic score.
C9_BoostMonotone ==
    \A r \in Requests :
        LET f == frame[r]
        IN  Boosted(r) =>
                /\ Len(f.boosted_results) = Len(f.similarity_sorted)
                /\ \A j \in 1..Len(f.boosted_results) :
                       /\ f.boosted_results[j][1] = f.similarity_sorted[j][1]
                       /\ f.boosted_results[j][2] >= f.similarity_sorted[j][2]
                       /\ NoKeywordOverlap(f.query.s, product_id_to_name[f.boosted_results[j][1]])
                              => f.boosted_results[j][2] = f.similarity_sorted[j][2]

\* C9 witness: one list holds a boosted candidate and a candidate without overlap
C9_Witness ==
    \E r \in Requests :
        LET f == frame[r]
        IN  /\ Boosted(r)
            /\ \E j \in 1..Len(f.boosted_results) :
                   f.boosted_results[j][2] > f.similarity_sorted[j][2]
            /\ \E j \in 1..Len(f.boosted_results) :
                   /\ NoKeywordOverlap(f.query.s, product_id_to_name[f.boosted_results[j][1]])
                   /\ f.boosted_results[j][2] = f.similarity_sorted[j][2]

\* the list `later` keeps the relative order its items have in `earlier`
KeepsOrderOf(later, earlier) ==
    \A a, b \in 1..Len(later) :
        a < b => PositionOf(earlier, later[a][1]) < PositionOf(earlier, later[b][1])

\* C10: the re-sorted list holds the boosted candidates in non-increasing
\* final score, candidates of equal final score in the order of the
\* similarity-sorted list, and every bucket of the diversifier keeps the
\* order of the re-sorted list.
C10_StableResort ==
    \A r \in Requests :
        LET f == frame[r]
        IN  Boosted(r) =>
                /\ Len(f.boost_sorted) = Len(f.boosted_results)
                /\ \A j \in 1..Len(f.boosted_results) :
                       \E k \in 1..Len(f.boost_sorted) : f.boost_sorted[k] = f.boosted_results[j]
                /\ \A a, b \in 1..Len(f.boost_sorted) :
                       a < b =>
                           /\ f.boost_sorted[a][2] >= f.boost_sorted[b][2]
                           /\ f.boost_sorted[a][2] = f.boost_sorted[b][2] =>
                                  PositionOf(f.similarity_sorted, f.boost_sorted[a][1])
                                      < PositionOf(f.similarity_sorted, f.boost_sorted[b][1])
                /\ \A cat_id \in DOMAIN f.results_by_category :
                       KeepsOrderOf(f.results_by_category[cat_id], f.boost_sorted)

\* C10 witness: a boost lifted a candidate to the score of one that was ahead
\* of it, and a bucket of the diversifier holds both
C10_Witness ==
    \E r \in Requests :
        LET f == frame[r]
        IN  /\ Boosted(r)
            /\ \E a, b \in 1..Len(f.boost_sorted) :
                   /\ a < b
                   /\ f.boost_sorted[a][2] = f.boost_sorted[b][2]
                   /\ f.similarity_sorted[PositionOf(f.similarity_sorted, f.boost_sorted[a][1])][2]
                          > f.similarity_sorted[PositionOf(f.similarity_sorted, f.boost_sorted[b][1])][2]
                   /\ \E cat_id \in DOMAIN f.results_by_category :
                          {f.boost_sorted[a], f.boost_sorted[b]}
                              \subseteq {f.results_by_category[cat_id][k] :
                                             k \in 1..Len(f.results_by_category[cat_id])}

\* the handler has passed line 208 on the diversification branch
Diversified(r) ==
    /\ pc[r] \in {"paginate", "done"}
    /\ response[r].status \in {0, 200}
    /\ ~Truthy(Get(request[r], "category_id"))
    /\ IsProjectQuery(Get(request[r], "q").s)

\* C1: the diversified list has the length of the list that entered the
\* diversifier, holds exactly its candidates, and holds none twice.
C1_Permutation ==
    \A r \in Requests :
        LET f == frame[r]
        IN  Diversified(r) =>
                /\ Len(f.sorted_results) = Len(f.boost_sorted)
                /\ {f.sorted_results[j] : j \in 1..Len(f.sorted_results)}
                       = {f.boost_sorted[j] : j \in 1..Len(f.boost_sorted)}
                /\ \A a, b \in 1..Len(f.sorted_results) :
                       a # b => f.sorted_results[a][1] # f.sorted_results[b][1]

\* C1 witness: a list with a null category and a category of no tier came
\* out of the diversifier in another order
C1_Witness ==
    \E r \in Requests :
        LET f == frame[r]
        IN  /\ Diversified(r)
            /\ f.sorted_results # f.boost_sorted
            /\ f.top_results # <<>>
            /\ \E a, b \in IdsOf(f.remaining_products) :
                   /\ product_id_to_category[a] = PyNone
                   /\ product_id_to_category[b] = PyInt(99)

\* the categories in the order the tier walk visits them
RECURSIVE Flatten(_)
Flatten(groups) == IF groups = <<>> THEN <<>> ELSE Head(groups) \o Flatten(Tail(groups))

WalkOrder == Flatten(PROJECT_CATEGORY_ORDER)

WalkPosition(cat) == CHOOSE k \in 1..Len(WalkOrder) : PyInt(WalkOrder[k]) = cat

InTiers(cat) == \E k \in 1..Len(WalkOrder) : PyInt(WalkOrder[k]) = cat

\* 1 for the best candidate of its category in the list, 2 for the next, ...
RankInCategory(results, categories, pid) ==
    Cardinality({j \in 1..PositionOf(results, pid) :
                    categories[results[j][1]] = categories[pid]})

\* what both readings of C2 share: the output starts with the promoted head,
\* the head follows the order of the tier walk, and the head is made of the
\* candidates ranked first or second in a category of some tier
HeadInTierOrder(f) ==
    /\ f.sorted_results = f.top_results \o f.remaining_products
    /\ \A a, b \in 1..Len(f.top_results) :
           a < b =>
               WalkPosition(product_id_to_category[f.top_results[a][1]])
                   <= WalkPosition(product_id_to_category[f.top_results[b][1]])
    /\ IdsOf(f.top_results) =
           {pid \in IdsOf(f.boost_sorted) :
                /\ InTiers(product_id_to_category[pid])
                /\ RankInCategory(f.boost_sorted, product_id_to_category, pid)
                       <= MAX_ITEMS_PER_CATEGORY}

PromotedOf(f, cats) ==
    {j \in 1..Len(f.top_results) :
        \E k \in 1..Len(cats) : product_id_to_category[f.top_results[j][1]] = PyInt(cats[k])}

\* C2 as claimed: the head follows the tier order, holds no candidate ranked
\* third in its category, and every tier group (6 and 7 combined) contributes
\* at most MAX_ITEMS_PER_CATEGORY candidates to it.
C2_CapPerTierGroup ==
    \A r \in Requests :
        LET f == frame[r]
        IN  Diversified(r) =>
                /\ HeadInTierOrder(f)
                /\ \A g \in 1..Len(PROJECT_CATEGORY_ORDER) :
                       Cardinality(PromotedOf(f, PROJECT_CATEGORY_ORDER[g]))
                           <= MAX_ITEMS_PER_CATEGORY

\* C2 amended: the head follows the tier order, holds no candidate ranked
\* third in its category, and every category contributes at most
\* MAX_ITEMS_PER_CATEGORY candidates to it, so that a tier group contributes
\* at most that many for each of its categories.
C2_CapPerCategory ==
    \A r \in Requests :
        LET f == frame[r]
        IN  Diversified(r) =>
                /\ HeadInTierOrder(f)
                /\ \A k \in 1..Len(WalkOrder) :
                       Cardinality(PromotedOf(f, <<WalkOrder[k]>>)) <= MAX_ITEMS_PER_CATEGORY
                /\ \A g \in 1..Len(PROJECT_CATEGORY_ORDER) :
                       Cardinality(PromotedOf(f, PROJECT_CATEGORY_ORDER[g]))
                           <= MAX_ITEMS_PER_CATEGORY * Len(PROJECT_CATEGORY_ORDER[g])

\* C2 witness: the group of 6 and 7 put three candidates in the head, and a
\* candidate ranked third in its category waits in the tail
C2_Witness ==
    \E r \in Requests :
        LET f == frame[r]
        IN  /\ Diversified(r)
            /\ Cardinality(PromotedOf(f, <<6, 7>>)) > MAX_ITEMS_PER_CATEGORY
            /\ \E pid \in IdsOf(f.remaining_products) :
                   /\ InTiers(product_id_to_category[pid])
                   /\ RankInCategory(f.boost_sorted, product_id_to_category, pid)
                          > MAX_ITEMS_PER_CATEGORY

\* the body's q is missing or empty, or its page or its limit is below 1
InvalidInput(body) ==
    LET page == PyIntOf(GetDefault(body, "page", PyInt(1)))
        limit == PyIntOf(GetDefault(body, "limit", PyInt(10)))
    IN  \/ ~Truthy(Get(body, "q"))
        \/ page.ok /\ page.val < 1
        \/ limit.ok /\ limit.val < 1

\* C3 as claimed: with the index loaded, a request with an invalid q, page or
\* limit is answered 400 and made no call to the embedding function or the
\* vector index.
C3_ValidationBeforeComputation ==
    \A r \in Requests :
        (index.loaded /\ pc[r] # "idle" /\ InvalidInput(request[r])) =>
            /\ calls[r].encode = 0
            /\ calls[r].search = 0
            /\ Answered(r) => response[r].status = 400

\* the ids of list[lo .. hi), positions counted from 0
IdsBetween(list, lo, hi) ==
    [j \in 1..(IF hi > lo THEN hi - lo ELSE 0) |-> list[lo + j][1]]

Min(a, b) == IF a < b THEN a ELSE b

RECURSIVE PagesFrom(_, _, _)
PagesFrom(list, limit, page) ==
    IF (page - 1) * limit >= Len(list) THEN <<>>
    ELSE PySlice(list, (page - 1) * limit, (page - 1) * limit + limit)
             \o PagesFrom(list, limit, page + 1)

\* the number of candidates the request's filter lets through
ExpectedTotal(r) ==
    LET wanted == PyIntOf(frame[r].category_id)
        candidates == IdsOf(frame[r].boost_sorted)
    IN  IF Truthy(Get(request[r], "category_id")) /\ wanted.ok
        THEN Cardinality({pid \in candidates :
                             product_id_to_category[pid] = PyInt(wanted.val)})
        ELSE Cardinality(candidates)

\* C6: for page >= 1 and limit >= 1 the response holds the ids at positions
\* [(page-1)*limit, min(page*limit, N)) of the final list, total is N whatever
\* page and limit are, and the pages of any size put end to end are the list
\* (37 items in pages of 10: 10, 10, 10 and 7).
C6_Pagination ==
    \A r \in Requests :
        LET f == frame[r]
            N == Len(f.sorted_results)
        IN  (Answered(r) /\ response[r].status = 200 /\ f.page >= 1 /\ f.limit >= 1) =>
                /\ response[r].product_ids =
                       IdsBetween(f.sorted_results, (f.page - 1) * f.limit,
                                  Min(f.page * f.limit, N))
                /\ response[r].total = N
                /\ N = ExpectedTotal(r)
                /\ \A limit \in 1..(MaxLimit + 1) :
                       PagesFrom(f.sorted_results, limit, 1) = f.sorted_results
                /\ [page \in 1..4 |-> Len(PySlice([j \in 1..37 |-> <<j, 0>>],
                                                  (page - 1) * 10, (page - 1) * 10 + 10))]
                       = <<10, 10, 10, 7>>

\* C6 witness: a last page that is not full, behind a full page
C6_Witness ==
    \E r \in Requests :
        LET f == frame[r]
        IN  /\ Answered(r)
            /\ response[r].status = 200
            /\ f.page = 2
            /\ f.limit = 2
            /\ Len(f.sorted_results) = 3
            /\ Len(response[r].product_ids) = 1
            /\ response[r].total = 3

\* category_id is in the body and int() rejects it
Unparseable(v) == v.t \in {"int", "str"} /\ ~PyIntOf(v).ok

\* C5 as claimed: a request whose category_id does not parse is answered
\* without error and exactly as the same request without category_id.
C5_SoftFailAsOmitted ==
    \A r1, r2 \in Requests :
        (/\ Answered(r1)
         /\ Answered(r2)
         /\ Unparseable(request[r1].category_id)
         /\ request[r2] = [request[r1] EXCEPT !.category_id = PyAbsent]) =>
            /\ response[r1] = response[r2]
            /\ response[r1].status # 500

\* C8: at every moment, two answered requests with the same body hold the
\* same response, and no step of any request changes the snapshot.
C8_Determinism ==
    /\ [](\A r1, r2 \in Requests :
            (Answered(r1) /\ Answered(r2) /\ request[r1] = request[r2]) =>
                response[r1] = response[r2])
    /\ [][snapshot' = snapshot]_vars

\* C8 witness: two invocations with the same body were both answered with
\* the same non-empty page of results
C8_Witness ==
    \E r1, r2 \in Requests :
        /\ r1 # r2
        /\ Answered(r1)
        /\ Answered(r2)
        /\ request[r1] = request[r2]
        /\ response[r1].status = 200
        /\ response[r1].product_ids # <<>>
        /\ response[r1] = response[r2]

\* the part of the diversified list behind the promoted head
TailOf(f) ==
    SelectSeq(f.sorted_results, LAMBDA res : res[1] \notin IdsOf(f.top_results))

\* the tier walk cannot promote this candidate: its category is null or in
\* no tier, or it is ranked below the cap in its category
NeverPromoted(f, pid) ==
    \/ ~InTiers(product_id_to_category[pid])
    \/ RankInCategory(f.boost_sorted, product_id_to_category, pid) > MAX_ITEMS_PER_CATEGORY

\* C11: in the diversified list every candidate the tier walk did not emit,
\* among them every candidate of a null or untiered category and every
\* candidate ranked third or lower in its category, stands behind all
\* promoted candidates, and these candidates keep the relative order of the
\* finalScore-sorted input.
C11_PlainRelevanceTail ==
    \A r \in Requests :
        LET f == frame[r]
            tail == TailOf(f)
        IN  Diversified(r) =>
                /\ IdsOf(tail) = IdsOf(f.boost_sorted) \ IdsOf(f.top_results)
                /\ \A pid \in IdsOf(f.boost_sorted) :
                       NeverPromoted(f, pid) => pid \in IdsOf(tail)
                /\ \A t \in IdsOf(tail), h \in IdsOf(f.top_results) :
                       /\ \A j \in 1..Len(f.sorted_results) :
                              f.sorted_results[j][1] = h => j <= Len(f.top_results)
                       /\ \A j \in 1..Len(f.sorted_results) :
                              f.sorted_results[j][1] = t => j > Len(f.top_results)
                /\ Len(tail) = Len(f.sorted_results) - Len(f.top_results)
                /\ tail = SelectSeq(f.boost_sorted,
                                    LAMBDA res : res[1] \notin IdsOf(f.top_results))

\* C11 witness: behind a promoted head, the tail holds a candidate ranked
\* third in its category and a candidate of a null or untiered category, and
\* a tail candidate outscores a promoted one
C11_Witness ==
    \E r \in Requests :
        LET f == frame[r]
            tail == TailOf(f)
        IN  /\ Diversified(r)
            /\ f.top_results # <<>>
            /\ \E a, b \in IdsOf(tail) :
                   /\ a # b
                   /\ InTiers(product_id_to_category[a])
                   /\ RankInCategory(f.boost_sorted, product_id_to_category, a)
                          > MAX_ITEMS_PER_CATEGORY
                   /\ ~InTiers(product_id_to_category[b])
            /\ \E j \in 1..Len(tail), k \in 1..Len(f.top_results) :
                   tail[j][2] > f.top_results[k][2]

====
